---- MODULE Spec2Model ----
(***************************************************************************)
(* Model of the Megascops detection pipeline (src-tauri/src/lib.rs and     *)
(* src-tauri/src/media.rs): process_media / process, the exporter thread,  *)
(* the stager task, the media_worker pool, the outbound request stream and *)
(* the inbound response loop, plus resume_from_checkpoint.                 *)
(***************************************************************************)
EXTENDS Integers, Sequences, FiniteSets, TLC

VARIABLES
    cfg,            \* Config of the run (DetectOptions + ConfigOptions)
    pc,             \* position of the process_media / process task
    term,           \* how process() left its main path ("none" while running)
    result,         \* Result of process(): "none" | "ok" | "err"
    file_paths,     \* indexed set after resume filtering (lib.rs:132-149)
    dirExists,      \* the scratch directory (buffer_path) exists on disk
    stagedFiles,    \* staged copies present in the scratch directory
    stager,         \* "none" | "spawned" | "running" | "done" | "panicked"
    io_todo,        \* files the io thread still has to copy
    io_held,        \* file copied by io_worker and not yet sent ({} or {f})
    io_q,           \* bounded(buffer_size) queue of staged FileItems
    worker,         \* per file: "idle" | "emit" | "done" | "panicked"
    emitting,       \* per file: WebpItems media_worker still has to send
    rm,             \* per file: the remove_file_with_retries call of line 88
    media_q,        \* bounded(8) encoded-frame queue
    outbound,       \* "none" | "idle" | "polling" | "finished" | "dropped"
    frames,         \* PendingMap: uuid -> ExportFrame skeleton
    nextUuid,       \* number of uuids minted so far, plus one
    export_q,       \* unbounded response channel to the exporter
    export_data,    \* CheckpointBuffer
    checkpoint_counter,
    checkpointFile, \* latest checkpoint on disk (<<>> when none written)
    finish,         \* the exporter's done flag
    finalArtifact,  \* what export::export wrote (<<>> wrapped in Some / None)
    progress_q,     \* number of increments in the bounded(5) progress channel
    progress,       \* number of detect-progress events emitted
    percent,        \* the progress thread's f32 `progress`, in units of 2^-23
    events,         \* terminal events emitted by process_media
    reqLog,         \* history: uuid -> the frame whose request carried it
    responded,      \* history: uuids of the responses the inbound loop received
    mergeLog,       \* history: <<uuid, record>> forwarded by the inbound loop
    taken,          \* history: per-file error items taken from media_q
    loaded,         \* history: records loaded from the resume checkpoint
    folder,         \* media files present in the selected folder
    runNo           \* chain of runs: number of the current run

vars == << cfg, pc, term, result, file_paths, dirExists, stagedFiles, stager,
           io_todo, io_held, io_q, worker, emitting, rm, media_q, outbound,
           frames, nextUuid, export_q, export_data, checkpoint_counter,
           checkpointFile, finish, finalArtifact, progress_q, progress, percent,
           events, reqLog, responded, mergeLog, taken, loaded, folder, runNo >>

-----------------------------------------------------------------------------
(* Bounds and program constants *)

\* decodable frames of the video file of the model
VideoFrames == 2
\* longest checkpoint file drawn as an input of resume_from_checkpoint
MaxCkptLen == 3
\* largest folder of the progress accounting
MaxFiles == 7
\* longest chain of runs (a first run and its resumptions)
MaxRuns == 3
\* capacity of the encoded-frame queue
MediaQueueCap == 8
\* capacity of the progress channel
ProgressCap == 5
\* max_retries of the call of remove_file_with_retries
MaxRetries == 3

None == << >>
Some(x) == << x >>
IsSome(o) == o # << >>

Files == {"a.jpg", "clip.mp4"}

Extension(f) == IF f = "a.jpg" THEN "jpg" ELSE "mp4"

\* the id of a response the server invents (no request carried it)
UnknownUuid == 0

-----------------------------------------------------------------------------
(* Data: WebpItem (media.rs), ExportFrame (lib.rs outbound stream) *)

Frame(f, idx, total, ifr) ==
    [kind |-> "Frame", file |-> f, frame_index |-> idx,
     total_frames |-> total, iframe |-> ifr]

ErrFile(f) ==
    [kind |-> "ErrFile", file |-> f, frame_index |-> 0,
     total_frames |-> 0, iframe |-> FALSE]

\* the skeleton inserted into the PendingMap for a frame
Skeleton(fr) ==
    [file |-> fr.file, frame_index |-> fr.frame_index,
     total_frames |-> fr.total_frames, iframe |-> fr.iframe,
     bboxes |-> None, label |-> None, error |-> None]

\* the record sent to the exporter for a per-file error item
ErrRecord(item) ==
    [file |-> item.file, frame_index |-> 0, total_frames |-> 0,
     iframe |-> FALSE, bboxes |-> None, label |-> None,
     error |-> Some("error")]

\* what the server puts in a DetectResponse
ServerBboxs == << "bbox" >>
ServerLabel == "Animal"

\* faulty variant: the label is not set
MergeResponse_NoLabel(frame) ==
    [frame EXCEPT !.bboxes = Some(ServerBboxs)]

\* the inbound loop's merge of a response into the removed skeleton
MergeResponse(frame) ==
    [frame EXCEPT !.bboxes = Some(ServerBboxs), !.label = Some(ServerLabel)]

-----------------------------------------------------------------------------
(* Pure functions *)

\* utils::sample_evenly: indices floor(i*N/K) for i in 0..K-1, all when N <= K
SampleEvenly(n, k) ==
    IF n <= k THEN [i \in 1..n |-> i - 1]
    ELSE [i \in 1..k |-> ((i - 1) * n) \div k]

\* process_image: one frame, or one per-file error item
ProcessImage(f, outcome) ==
    IF outcome = "ok" THEN << Frame(f, 0, 1, FALSE) >> ELSE << ErrFile(f) >>

\* faulty variant: total_frames is the number of decoded frames
HandleFfmpegOutput_TotalDecoded(f, decoded, max_frames, ifr) ==
    IF decoded = 0 THEN << ErrFile(f) >>
    ELSE LET k == IF IsSome(max_frames) THEN max_frames[1] ELSE decoded
             sampled == SampleEvenly(decoded, k)
         IN [i \in 1..Len(sampled) |-> Frame(f, sampled[i], decoded, ifr)]

\* handle_ffmpeg_output: no frames -> one error item, else the sampled frames
HandleFfmpegOutput(f, decoded, max_frames, ifr) ==
    IF decoded = 0 THEN << ErrFile(f) >>
    ELSE LET k == IF IsSome(max_frames) THEN max_frames[1] ELSE decoded
             sampled == SampleEvenly(decoded, k)
         IN [i \in 1..Len(sampled) |->
                Frame(f, sampled[i], Len(sampled), ifr)]

\* process_video: probe error -> one error item, else the ffmpeg output
ProcessVideo(f, outcome, max_frames, ifr) ==
    IF outcome = "probe_err" THEN << ErrFile(f) >>
    ELSE HandleFfmpegOutput(f, IF outcome = "ok" THEN VideoFrames ELSE 0,
                            max_frames, ifr)

ImageOutcomes == {"ok", "decode_err"}
VideoOutcomes == {"ok", "probe_err", "no_frames", "spawn_err"}

IsImage(f) == Extension(f) \in {"jpg", "jpeg", "png"}
IsVideo(f) == Extension(f) \in {"mp4", "avi", "mkv", "mov"}

Outcomes(f) == IF IsImage(f) THEN ImageOutcomes ELSE VideoOutcomes

\* the items media_worker sends for a file
MediaItems(f, outcome, c) ==
    IF IsImage(f) THEN ProcessImage(f, outcome)
    ELSE ProcessVideo(f, outcome, c.max_frames, c.iframe_only)

\* f32 arithmetic of the progress thread.  A value is an integer number of
\* units of 2^-23; every f32 in [1, 128) is such a number.
F32One == 2^23

\* x / d rounded to the nearest integer, ties to even
RoundHalfEven(x, d) ==
    LET q == x \div d
        r == x % d
    IN IF 2 * r < d THEN q
       ELSE IF 2 * r > d THEN q + 1
       ELSE IF q % 2 = 0 THEN q ELSE q + 1

\* the smallest power of two d, from d on, with x / d below 2^24
RECURSIVE F32Ulp(_, _)
F32Ulp(x, d) == IF x \div d < 2^24 THEN d ELSE F32Ulp(x, 2 * d)

\* x rounded to a 24-bit significand
F32Round(x) == RoundHalfEven(x, F32Ulp(x, 1)) * F32Ulp(x, 1)

F32Add(a, b) == F32Round(a + b)

\* process_media, line 493: 1.0 / total_files as f32 * 100.0, for
\* 1 <= total_files < 64: the quotient is m * 2^-k with a 24-bit m, the
\* product is rounded again
ProgressIncrement(total_files) ==
    LET k == CHOOSE e \in 23..29 : /\ 2^e >= total_files * 2^23
                                   /\ 2^(e - 1) < total_files * 2^23
        m == RoundHalfEven(2^k, total_files)
    IN F32Round(m * 100) \div 2^(k - 23)

\* resume_from_checkpoint, the loop over the checkpoint's records:
\* count and total are the two HashMaps (total -1: no entry yet)
RECURSIVE ResumeLoop(_, _, _, _, _)
ResumeLoop(frs, i, count, total, all_files) ==
    IF i > Len(frs) THEN all_files
    ELSE LET f == frs[i].file
             count1 == [count EXCEPT ![f] = @ + 1]
             total1 == IF total[f] = -1
                       THEN [total EXCEPT ![f] = frs[i].total_frames]
                       ELSE total
             files1 == IF total1[f] = count1[f]
                       THEN all_files \ {f} ELSE all_files
         IN ResumeLoop(frs, i + 1, count1, total1, files1)

\* number of records of the checkpoint for a path, and the total_frames of
\* the first of them
SeenCount(frs, f) == Cardinality({i \in DOMAIN frs : frs[i].file = f})
ExpectedTotal(frs, f) ==
    LET first == CHOOSE i \in DOMAIN frs :
                    /\ frs[i].file = f
                    /\ \A j \in 1..(i - 1) : frs[j].file # f
    IN frs[first].total_frames

\* faulty variant: the counts are compared once, over the whole checkpoint
ResumeFromCheckpoint_WholeCheckpoint(frs, all_files) ==
    all_files \ {f \in Files : /\ SeenCount(frs, f) > 0
                                /\ SeenCount(frs, f) = ExpectedTotal(frs, f)}

\* faulty variant: the comparison is count >= total_frames
ResumeFromCheckpoint_AtLeastTotal(frs, all_files) ==
    all_files \ {f \in Files : /\ SeenCount(frs, f) > 0
                                /\ SeenCount(frs, f) >= ExpectedTotal(frs, f)}

ResumeFromCheckpoint(frs, all_files) ==
    ResumeLoop(frs, 1, [f \in Files |-> 0], [f \in Files |-> -1], all_files)

\* faulty variant: the records of the checkpoint are not put into the buffer
LoadCheckpoint_Skip(data, frs) == data

\* resume_from_checkpoint, line 434: export_data.extend_from_slice(&frames)
LoadCheckpoint(data, frs) == data \o frs

\* cleanup_buffer: the state of the scratch directory after the call
CleanupBuffer(buffer_path, exists) ==
    IF IsSome(buffer_path) /\ exists THEN FALSE ELSE exists


-----------------------------------------------------------------------------
(* Configurations and initial state *)

NoResume == [kind |-> "none", frames |-> << >>]
BadResume == [kind |-> "invalid", frames |-> << >>]

\* a record as a checkpoint file holds it
OkRecord(f, idx, total) ==
    [file |-> f, frame_index |-> idx, total_frames |-> total, iframe |-> FALSE,
     bboxes |-> Some(ServerBboxs), label |-> Some(ServerLabel), error |-> None]

FailRecord(f) == ErrRecord(ErrFile(f))

\* scenario S4: the image complete, the clip with 1 of its frames
ResumeS4 ==
    [kind |-> "ok",
     frames |-> << OkRecord("a.jpg", 0, 1), OkRecord("clip.mp4", 0, VideoFrames) >>]

BaseConfig ==
    [buffer_path |-> None, buffer_size |-> 1, check_point |-> 2,
     max_frames |-> None, iframe_only |-> FALSE, resume |-> NoResume]

\* the run configurations explored
Configs ==
    { BaseConfig,
      [BaseConfig EXCEPT !.buffer_path = Some("buffer"), !.iframe_only = TRUE,
                         !.max_frames = Some(2)],
      [BaseConfig EXCEPT !.buffer_path = Some("buffer"), !.check_point = 0,
                         !.resume = ResumeS4],
      [BaseConfig EXCEPT !.resume = ResumeS4, !.check_point = 1],
      [BaseConfig EXCEPT !.resume = BadResume],
      [BaseConfig EXCEPT !.buffer_path = Some("buffer"), !.buffer_size = 0,
                         !.max_frames = Some(1)] }

Staged == IsSome(cfg.buffer_path)

\* remove_file_with_retries before its call: `attempts` is the function's
\* counter, tries and sleeps count the calls of fs::remove_file and of
\* thread::sleep
NotCalled ==
    [at |-> "none", attempts |-> 0, tries |-> 0, sleeps |-> 0, removed |-> FALSE]

Idle ==
    /\ term = "none"
    /\ result = "none"
    /\ file_paths = {}
    /\ dirExists = FALSE
    /\ stagedFiles = {}
    /\ stager = "none"
    /\ io_todo = {}
    /\ io_held = {}
    /\ io_q = << >>
    /\ worker = [f \in Files |-> "idle"]
    /\ emitting = [f \in Files |-> << >>]
    /\ rm = [f \in Files |-> NotCalled]
    /\ media_q = << >>
    /\ outbound = "none"
    /\ frames = << >>
    /\ nextUuid = 1
    /\ export_q = << >>
    /\ export_data = << >>
    /\ checkpoint_counter = 0
    /\ finish = FALSE
    /\ finalArtifact = None
    /\ progress_q = 0
    /\ progress = 0
    /\ percent = 0
    /\ events = << >>
    /\ reqLog = << >>
    /\ responded = {}
    /\ mergeLog = {}
    /\ taken = << >>
    /\ loaded = << >>

Init ==
    /\ cfg \in Configs
    /\ pc = "pm_index"
    /\ folder = Files
    /\ checkpointFile = None
    /\ runNo = 1
    /\ Idle

-----------------------------------------------------------------------------
(* Helpers on the shared state *)

Insert(m, k, v) == [x \in DOMAIN m \cup {k} |-> IF x = k THEN v ELSE m[x]]
Remove(m, k) == [x \in DOMAIN m \ {k} |-> m[x]]

\* the exporter thread, the producers and the outbound stream exist
Spawned == outbound # "none"

\* process() still holds export_q_s (dropped at lines 297/311 or on return)
SupervisorHoldsSender == pc \in {"detect", "inbound"}

\* the outbound stream lives: created or waiting for the transport's next
\* poll ("idle"), or inside a poll, in media_q_r.recv() ("polling")
OutboundAlive == outbound \in {"idle", "polling"}

\* the outbound stream holds export_q_s_clone and media_q_r while it lives
OutboundHoldsSender == OutboundAlive

\* the rayon task of lines 180-203 / 205-218 has run to its end
ProducersEnded ==
    /\ Spawned
    /\ \A f \in Files : worker[f] # "emit"
    /\ IF Staged
       THEN stager \in {"done", "panicked"} /\ io_q = << >>
       ELSE \A f \in file_paths : worker[f] # "idle"

\* faulty variant: a media_q_s outlives the producers
MediaClosed_SenderKept == FALSE

\* every media_q_s is dropped
MediaClosed == ProducersEnded

\* process_media, line 479: the number of files the index found
TotalFiles == Cardinality(folder)

\* the state of the scratch directory and its content after cleanup_buffer
CleanedDir == CleanupBuffer(cfg.buffer_path, dirExists)
CleanedFiles == IF CleanedDir THEN stagedFiles ELSE {}


-----------------------------------------------------------------------------
(* process_media and process: the supervisor task *)

supVars == << pc, term, result >>
stagerVars == << stager, io_todo, io_held, io_q >>
workerVars == << worker, emitting, rm >>
exportVars == << export_data, checkpoint_counter, checkpointFile, finish >>
histVars == << reqLog, responded, mergeLog, taken >>
runVars == << cfg, folder, runNo >>
progressVars == << progress, percent >>

\* process_media, lines 470-498: index for total_files, spawn the progress thread
ProcessMediaIndex ==
    /\ pc = "pm_index"
    /\ \E readable \in BOOLEAN :
          IF readable
          THEN pc' = "auth" /\ events' = events
          ELSE pc' = "pm_done" /\ events' = Append(events, "detect-error")
    /\ UNCHANGED << term, result, file_paths, dirExists, stagedFiles, stagerVars,
                    workerVars, media_q, outbound, frames, nextUuid, export_q,
                    exportVars, finalArtifact, progress_q, progressVars, histVars,
                    loaded, runVars >>

\* process, lines 112-117: connect and auth; a failure returns the error
Authenticate ==
    /\ pc = "auth"
    /\ \E ok \in BOOLEAN :
          IF ok
          THEN pc' = "cleanup" /\ UNCHANGED << term, result >>
          ELSE pc' = "returned" /\ term' = "auth" /\ result' = "err"
    /\ UNCHANGED << file_paths, dirExists, stagedFiles, stagerVars, workerVars,
                    media_q, outbound, frames, nextUuid, export_q, exportVars,
                    finalArtifact, progress_q, progressVars, events, histVars,
                    loaded, runVars >>

\* faulty variant: the check_point == 0 exit returns an error
CleanupAndCheck_ErrExit ==
    /\ pc = "cleanup"
    /\ dirExists' = CleanedDir
    /\ stagedFiles' = CleanedFiles
    /\ IF cfg.check_point = 0
       THEN pc' = "returned" /\ term' = "config" /\ result' = "err"
       ELSE pc' = "index" /\ UNCHANGED << term, result >>
    /\ UNCHANGED << file_paths, stagerVars, workerVars, media_q, outbound,
                    frames, nextUuid, export_q, exportVars, finalArtifact,
                    progress_q, progressVars, events, histVars, loaded,
                    runVars >>

\* process, lines 119-124: cleanup_buffer, then the check_point == 0 exit
CleanupAndCheck ==
    /\ pc = "cleanup"
    /\ dirExists' = CleanedDir
    /\ stagedFiles' = CleanedFiles
    /\ IF cfg.check_point = 0
       THEN pc' = "returned" /\ term' = "config" /\ result' = "ok"
       ELSE pc' = "index" /\ UNCHANGED << term, result >>
    /\ UNCHANGED << file_paths, stagerVars, workerVars, media_q, outbound,
                    frames, nextUuid, export_q, exportVars, finalArtifact,
                    progress_q, progressVars, events, histVars, loaded, runVars >>

\* process, lines 126-149: index the folder, apply the resume checkpoint
IndexAndResume ==
    /\ pc = "index"
    /\ \/ /\ cfg.resume.kind = "none"
          /\ file_paths' = folder
          /\ pc' = "spawn"
          /\ UNCHANGED << export_data, loaded, term, result >>
       \/ /\ cfg.resume.kind = "ok"
          /\ file_paths' = ResumeFromCheckpoint(cfg.resume.frames, folder)
          /\ export_data' = LoadCheckpoint(export_data, cfg.resume.frames)
          /\ loaded' = cfg.resume.frames
          /\ pc' = "spawn"
          /\ UNCHANGED << term, result >>
       \/ /\ cfg.resume.kind = "invalid"
          /\ pc' = "returned" /\ term' = "resume" /\ result' = "err"
          /\ UNCHANGED << file_paths, export_data, loaded >>
    /\ UNCHANGED << dirExists, stagedFiles, stagerVars, workerVars, media_q,
                    outbound, frames, nextUuid, export_q, checkpoint_counter,
                    checkpointFile, finish, finalArtifact, progress_q, progressVars,
                    events, histVars, runVars >>

\* process, lines 151-255: queues, exporter thread, stager or direct producers,
\* the outbound stream
SpawnWorkers ==
    /\ pc = "spawn"
    /\ pc' = "detect"
    /\ outbound' = "idle"
    /\ IF Staged
       THEN stager' = "spawned" /\ io_todo' = file_paths
       ELSE UNCHANGED << stager, io_todo >>
    /\ UNCHANGED << term, result, file_paths, dirExists, stagedFiles, io_held,
                    io_q, workerVars, media_q, frames, nextUuid, export_q,
                    exportVars, finalArtifact, progress_q, progressVars, events,
                    histVars, loaded, runVars >>

\* process, lines 262-264: the detect call is accepted
DetectAccepted ==
    /\ pc = "detect"
    /\ pc' = "inbound"
    /\ UNCHANGED << term, result, file_paths, dirExists, stagedFiles, stagerVars,
                    workerVars, media_q, outbound, frames, nextUuid, export_q,
                    exportVars, finalArtifact, progress_q, progressVars, events,
                    histVars, loaded, runVars >>

\* process, lines 265-269: the detect call is rejected with a status
DetectRejected ==
    /\ pc = "detect"
    /\ dirExists' = CleanedDir
    /\ stagedFiles' = CleanedFiles
    /\ pc' = "returned" /\ term' = "rejected" /\ result' = "ok"
    /\ UNCHANGED << file_paths, stagerVars, workerVars, media_q, outbound,
                    frames, nextUuid, export_q, exportVars, finalArtifact,
                    progress_q, progressVars, events, histVars, loaded, runVars >>

\* faulty variant: the oldest pending entry is taken, whatever the response's uuid
HandleResponse_OldestPending(u) ==
    /\ responded' = responded \cup {u}
    /\ IF u \in DOMAIN frames
       THEN LET k == CHOOSE k \in DOMAIN frames :
                        \A j \in DOMAIN frames : k <= j
            IN /\ frames' = Remove(frames, k)
               /\ export_q' = Append(export_q, MergeResponse(frames[k]))
               /\ mergeLog' = mergeLog \cup {<< u, MergeResponse(frames[k]) >>}
       ELSE UNCHANGED << frames, export_q, mergeLog >>

\* faulty variant: the entry is read and left in the PendingMap
HandleResponse_NoRemove(u) ==
    /\ responded' = responded \cup {u}
    /\ IF u \in DOMAIN frames
       THEN /\ frames' = frames
            /\ export_q' = Append(export_q, MergeResponse(frames[u]))
            /\ mergeLog' = mergeLog \cup {<< u, MergeResponse(frames[u]) >>}
       ELSE UNCHANGED << frames, export_q, mergeLog >>

\* faulty variant: a response without an entry is exported as a bare record
HandleResponse_ExportUnmatched(u) ==
    /\ responded' = responded \cup {u}
    /\ IF u \in DOMAIN frames
       THEN /\ frames' = Remove(frames, u)
            /\ export_q' = Append(export_q, MergeResponse(frames[u]))
            /\ mergeLog' = mergeLog \cup {<< u, MergeResponse(frames[u]) >>}
       ELSE /\ export_q' = Append(export_q, MergeResponse(Skeleton(ErrFile("a.jpg"))))
            /\ UNCHANGED << frames, mergeLog >>

\* the inbound loop's Ok(Some(response)) arm, lines 274-295
HandleResponse(u) ==
    /\ responded' = responded \cup {u}
    /\ IF u \in DOMAIN frames
       THEN /\ frames' = Remove(frames, u)
            /\ export_q' = Append(export_q, MergeResponse(frames[u]))
            /\ mergeLog' = mergeLog \cup {<< u, MergeResponse(frames[u]) >>}
       ELSE UNCHANGED << frames, export_q, mergeLog >>

\* the loop takes the response with uuid u and goes on
InboundResponseFor(u) ==
    /\ pc = "inbound"
    /\ HandleResponse(u)
    /\ UNCHANGED << supVars, file_paths, dirExists, stagedFiles, stagerVars,
                    workerVars, media_q, outbound, nextUuid, exportVars,
                    finalArtifact, progress_q, progressVars, events, reqLog, taken,
                    loaded, runVars >>

\* the uuids the server can send: those of the requests it received, and
\* one it invents
InboundResponse == \E u \in DOMAIN reqLog \cup {UnknownUuid} : InboundResponseFor(u)

\* the Ok(None) arm, line 296-297: drop(export_q_s), then wait for finish
InboundEnd ==
    /\ pc = "inbound"
    /\ pc' = "wait" /\ term' = "end"
    /\ UNCHANGED << result, file_paths, dirExists, stagedFiles, stagerVars,
                    workerVars, media_q, outbound, frames, nextUuid, export_q,
                    exportVars, finalArtifact, progress_q, progressVars, events,
                    histVars, loaded, runVars >>

\* the Err(e) arm, lines 309-311
InboundError ==
    /\ pc = "inbound"
    /\ pc' = "wait" /\ term' = "error"
    /\ UNCHANGED << result, file_paths, dirExists, stagedFiles, stagerVars,
                    workerVars, media_q, outbound, frames, nextUuid, export_q,
                    exportVars, finalArtifact, progress_q, progressVars, events,
                    histVars, loaded, runVars >>

\* faulty variant: the supervisor does not wait for the exporter's flag
PollFinish_NoWait ==
    /\ pc = "wait"
    /\ pc' = "export"
    /\ UNCHANGED << term, result, file_paths, dirExists, stagedFiles, stagerVars,
                    workerVars, media_q, outbound, frames, nextUuid, export_q,
                    exportVars, finalArtifact, progress_q, progressVars, events,
                    histVars, loaded, runVars >>

\* lines 298-300 / 312-314: the poll loop leaves once finish is set
PollFinish ==
    /\ pc = "wait"
    /\ finish
    /\ pc' = "export"
    /\ UNCHANGED << term, result, file_paths, dirExists, stagedFiles, stagerVars,
                    workerVars, media_q, outbound, frames, nextUuid, export_q,
                    exportVars, finalArtifact, progress_q, progressVars, events,
                    histVars, loaded, runVars >>

\* lines 301-305 / 315-319: export::export of the CheckpointBuffer
FinalExport ==
    /\ pc = "export"
    /\ finalArtifact' = Some(export_data)
    /\ pc' = "cleanup2"
    /\ UNCHANGED << term, result, file_paths, dirExists, stagedFiles, stagerVars,
                    workerVars, media_q, outbound, frames, nextUuid, export_q,
                    exportVars, progress_q, progressVars, events, histVars, loaded,
                    runVars >>

\* lines 306-307 / 320-321 and 326-327: cleanup_buffer, then return Ok
FinalCleanup ==
    /\ pc = "cleanup2"
    /\ dirExists' = CleanedDir
    /\ stagedFiles' = CleanedFiles
    /\ pc' = "returned" /\ result' = "ok"
    /\ UNCHANGED << term, file_paths, stagerVars, workerVars, media_q, outbound,
                    frames, nextUuid, export_q, exportVars, finalArtifact,
                    progress_q, progressVars, events, histVars, loaded, runVars >>

\* faulty variant: detect-complete whatever process() returned
EmitTerminal_AlwaysComplete ==
    /\ pc = "returned"
    /\ events' = Append(events, "detect-complete")
    /\ pc' = "join"
    /\ UNCHANGED << term, result, file_paths, dirExists, stagedFiles, stagerVars,
                    workerVars, media_q, outbound, frames, nextUuid, export_q,
                    exportVars, finalArtifact, progress_q, progressVars,
                    histVars, loaded, runVars >>

\* process_media, lines 500-508: the terminal event
EmitTerminal ==
    /\ pc = "returned"
    /\ events' = Append(events, IF result = "ok" THEN "detect-complete"
                                ELSE "detect-error")
    /\ pc' = "join"
    /\ UNCHANGED << term, result, file_paths, dirExists, stagedFiles, stagerVars,
                    workerVars, media_q, outbound, frames, nextUuid, export_q,
                    exportVars, finalArtifact, progress_q, progressVars, histVars,
                    loaded, runVars >>

\* every Sender of the progress channel is dropped
ProgressClosed ==
    /\ pc \in {"returned", "join", "pm_done"}
    /\ Spawned => ProducersEnded

\* faulty variant: the join does not wait for the channel to be drained
JoinProgress_NoDrain ==
    /\ pc = "join"
    /\ ProgressClosed
    /\ pc' = "pm_done"
    /\ UNCHANGED << term, result, file_paths, dirExists, stagedFiles, stagerVars,
                    workerVars, media_q, outbound, frames, nextUuid, export_q,
                    exportVars, finalArtifact, progress_q, progressVars, events,
                    histVars, loaded, runVars >>

\* process_media, line 509: join the progress thread
JoinProgress ==
    /\ pc = "join"
    /\ progress_q = 0
    /\ ProgressClosed
    /\ pc' = "pm_done"
    /\ UNCHANGED << term, result, file_paths, dirExists, stagedFiles, stagerVars,
                    workerVars, media_q, outbound, frames, nextUuid, export_q,
                    exportVars, finalArtifact, progress_q, progressVars, events,
                    histVars, loaded, runVars >>

\* the progress thread, lines 490-498: one detect-progress per increment
ProgressRecv ==
    /\ progress_q > 0
    /\ progress_q' = progress_q - 1
    /\ progress' = progress + 1
    /\ percent' = F32Add(percent, ProgressIncrement(TotalFiles))
    /\ UNCHANGED << supVars, file_paths, dirExists, stagedFiles, stagerVars,
                    workerVars, media_q, outbound, frames, nextUuid, export_q,
                    exportVars, finalArtifact, events, histVars, loaded,
                    runVars >>


-----------------------------------------------------------------------------
(* The exporter thread, lines 163-177 *)

\* faulty variant: the record is put in front of the buffer
ExportWorkerRecv_Prepend(rec) ==
    /\ export_data' = << rec >> \o export_data
    /\ checkpoint_counter' = checkpoint_counter + 1
    /\ checkpointFile' = IF (checkpoint_counter + 1) % cfg.check_point = 0
                         THEN Some(<< rec >> \o export_data)
                         ELSE checkpointFile

\* export_worker: append the received record, count it, and write a
\* checkpoint of the whole buffer every check_point receipts
ExportWorkerRecv(rec) ==
    /\ export_data' = Append(export_data, rec)
    /\ checkpoint_counter' = checkpoint_counter + 1
    /\ checkpointFile' = IF (checkpoint_counter + 1) % cfg.check_point = 0
                         THEN Some(Append(export_data, rec))
                         ELSE checkpointFile

ExportRecv ==
    /\ Spawned
    /\ ~finish
    /\ export_q # << >>
    /\ ExportWorkerRecv(Head(export_q))
    /\ export_q' = Tail(export_q)
    /\ UNCHANGED << supVars, file_paths, dirExists, stagedFiles, stagerVars,
                    workerVars, media_q, outbound, frames, nextUuid, finish,
                    finalArtifact, progress_q, progressVars, events, histVars,
                    loaded, runVars >>

\* faulty variant: finish is set with records still in the channel
ExportClose_BeforeDrained ==
    /\ Spawned
    /\ ~finish
    /\ ~SupervisorHoldsSender
    /\ ~OutboundHoldsSender
    /\ finish' = TRUE
    /\ UNCHANGED << supVars, file_paths, dirExists, stagedFiles, stagerVars,
                    workerVars, media_q, outbound, frames, nextUuid, export_q,
                    export_data, checkpoint_counter, checkpointFile,
                    finalArtifact, progress_q, progressVars, events, histVars,
                    loaded, runVars >>

\* the channel is closed and drained: export_worker returns, finish is set
ExportClose ==
    /\ Spawned
    /\ ~finish
    /\ export_q = << >>
    /\ ~SupervisorHoldsSender
    /\ ~OutboundHoldsSender
    /\ finish' = TRUE
    /\ UNCHANGED << supVars, file_paths, dirExists, stagedFiles, stagerVars,
                    workerVars, media_q, outbound, frames, nextUuid, export_q,
                    export_data, checkpoint_counter, checkpointFile,
                    finalArtifact, progress_q, progressVars, events, histVars,
                    loaded, runVars >>

-----------------------------------------------------------------------------
(* The stager task, lines 179-203 *)

\* lines 181-184: create the scratch directory, start the io thread
StagerCreateDir ==
    /\ stager = "spawned"
    /\ dirExists' = TRUE
    /\ stager' = IF io_todo = {} THEN "done" ELSE "running"
    /\ UNCHANGED << supVars, file_paths, stagedFiles, io_todo, io_held, io_q,
                    workerVars, media_q, outbound, frames, nextUuid, export_q,
                    exportVars, finalArtifact, progress_q, progressVars, events,
                    histVars, loaded, runVars >>

\* io_worker, first half: copy the source file into the scratch directory;
\* without the directory the copy fails and line 186 unwraps the error
IoCopy ==
    /\ stager = "running"
    /\ io_held = {}
    /\ \E f \in io_todo :
          IF dirExists
          THEN /\ stagedFiles' = stagedFiles \cup {f}
               /\ io_held' = {f}
               /\ io_todo' = io_todo \ {f}
               /\ stager' = stager
          ELSE /\ stager' = "panicked"
               /\ UNCHANGED << stagedFiles, io_held, io_todo >>
    /\ UNCHANGED << supVars, file_paths, dirExists, io_q, workerVars, media_q,
                    outbound, frames, nextUuid, export_q, exportVars,
                    finalArtifact, progress_q, progressVars, events, histVars,
                    loaded, runVars >>

\* io_worker, second half: send the staged FileItem into the bounded io queue;
\* after the last file the loop ends and io_q_s is dropped (line 188)
IoSend ==
    /\ stager = "running"
    /\ io_held # {}
    /\ Len(io_q) < cfg.buffer_size
    /\ \E f \in io_held : io_q' = Append(io_q, f)
    /\ io_held' = {}
    /\ stager' = IF io_todo = {} THEN "done" ELSE "running"
    /\ UNCHANGED << supVars, file_paths, dirExists, stagedFiles, io_todo,
                    workerVars, media_q, outbound, frames, nextUuid, export_q,
                    exportVars, finalArtifact, progress_q, progressVars, events,
                    histVars, loaded, runVars >>

-----------------------------------------------------------------------------
(* media_worker, media.rs lines 65-93 *)

\* the outcomes the decoders can have for the file a worker reads
PossibleOutcomes(f) ==
    IF Staged /\ f \notin stagedFiles
    THEN Outcomes(f) \ {"ok"}
    ELSE Outcomes(f)

\* take a file (from the io queue when staged, else from the indexed set) and
\* decode it; the queue of capacity 0 is a rendezvous: the worker takes the
\* file from the io thread blocked in its send; a failed ffmpeg spawn makes process_video return Err, which
\* line 83 unwraps
MediaWorkerStart ==
    /\ Spawned
    /\ \E f \in file_paths :
          /\ worker[f] = "idle"
          /\ IF Staged /\ cfg.buffer_size > 0
             THEN /\ io_q # << >> /\ Head(io_q) = f /\ io_q' = Tail(io_q)
                  /\ UNCHANGED << stager, io_held >>
             ELSE IF Staged
             THEN /\ stager = "running" /\ io_held = {f}
                  /\ io_held' = {}
                  /\ stager' = IF io_todo = {} THEN "done" ELSE "running"
                  /\ io_q' = io_q
             ELSE UNCHANGED << io_q, stager, io_held >>
          /\ \E outcome \in PossibleOutcomes(f) :
                IF outcome = "spawn_err"
                THEN /\ worker' = [worker EXCEPT ![f] = "panicked"]
                     /\ emitting' = emitting
                ELSE /\ worker' = [worker EXCEPT ![f] = "emit"]
                     /\ emitting' = [emitting EXCEPT
                                        ![f] = MediaItems(f, outcome, cfg)]
    /\ UNCHANGED << rm, supVars, file_paths, dirExists, stagedFiles, io_todo,
                    media_q, outbound, frames, nextUuid, export_q,
                    exportVars, finalArtifact, progress_q, progressVars, events,
                    histVars, loaded, runVars >>

\* send the next item into the encoded-frame queue (blocking while it is
\* full); with the receiver gone process_image logs and goes on, while
\* process_video's send errors are unwrapped
MediaWorkerSend ==
    /\ \E f \in Files :
          /\ worker[f] = "emit"
          /\ emitting[f] # << >>
          /\ IF OutboundAlive
             THEN /\ Len(media_q) < MediaQueueCap
                  /\ media_q' = Append(media_q, Head(emitting[f]))
                  /\ emitting' = [emitting EXCEPT ![f] = Tail(@)]
                  /\ worker' = worker
             ELSE /\ media_q' = media_q
                  /\ emitting' = [emitting EXCEPT ![f] = << >>]
                  /\ worker' = IF IsImage(f) THEN worker
                               ELSE [worker EXCEPT ![f] = "panicked"]
    /\ UNCHANGED << rm, supVars, file_paths, dirExists, stagedFiles, stagerVars,
                    outbound, frames, nextUuid, export_q, exportVars,
                    finalArtifact, progress_q, progressVars, events, histVars,
                    loaded, runVars >>

\* faulty variant: no progress increment is pushed
MediaWorkerFinish_NoProgress ==
    /\ \E f \in Files :
          /\ worker[f] = "emit"
          /\ emitting[f] = << >>
          /\ stagedFiles' = IF Staged THEN stagedFiles \ {f} ELSE stagedFiles
          /\ progress_q' = progress_q
          /\ worker' = [worker EXCEPT ![f] = "done"]
    /\ UNCHANGED << rm, supVars, file_paths, dirExists, stagerVars, emitting,
                    media_q, outbound, frames, nextUuid, export_q, exportVars,
                    finalArtifact, progressVars, events, histVars, loaded,
                    runVars >>

\* faulty variant: the staged copy is not deleted
MediaWorkerFinish_KeepStaged ==
    /\ \E f \in Files :
          /\ worker[f] = "emit"
          /\ emitting[f] = << >>
          /\ progress_q < ProgressCap
          /\ stagedFiles' = stagedFiles
          /\ progress_q' = progress_q + 1
          /\ worker' = [worker EXCEPT ![f] = "done"]
    /\ UNCHANGED << rm, supVars, file_paths, dirExists, stagerVars, emitting,
                    media_q, outbound, frames, nextUuid, export_q, exportVars,
                    finalArtifact, progressVars, events, histVars, loaded,
                    runVars >>

\* lines 87-92: delete the staged copy, push one progress increment
MediaWorkerFinish ==
    /\ \E f \in Files :
          /\ worker[f] = "emit"
          /\ emitting[f] = << >>
          /\ progress_q < ProgressCap
          /\ stagedFiles' = IF Staged THEN stagedFiles \ {f} ELSE stagedFiles
          /\ progress_q' = progress_q + 1
          /\ worker' = [worker EXCEPT ![f] = "done"]
    /\ UNCHANGED << rm, supVars, file_paths, dirExists, stagerVars, emitting,
                    media_q, outbound, frames, nextUuid, export_q, exportVars,
                    finalArtifact, progressVars, events, histVars, loaded, runVars >>

-----------------------------------------------------------------------------
(* The outbound stream, lines 223-255 *)

\* the transport polls the request body for its next message
TransportPoll ==
    /\ outbound = "idle"
    /\ outbound' = "polling"
    /\ UNCHANGED << supVars, file_paths, dirExists, stagedFiles, stagerVars,
                    workerVars, media_q, frames, nextUuid, export_q, exportVars,
                    finalArtifact, progress_q, progressVars, events, histVars,
                    loaded, runVars >>

\* faulty variant: the request is yielded without an entry in the PendingMap
OutboundFrame_NoInsert ==
    /\ outbound = "polling"
    /\ outbound' = "idle"
    /\ media_q # << >>
    /\ Head(media_q).kind = "Frame"
    /\ frames' = frames
    /\ reqLog' = Insert(reqLog, nextUuid, Head(media_q))
    /\ nextUuid' = nextUuid + 1
    /\ taken' = Append(taken, Head(media_q))
    /\ media_q' = Tail(media_q)
    /\ UNCHANGED << supVars, file_paths, dirExists, stagedFiles, stagerVars,
                    workerVars, export_q, exportVars, finalArtifact,
                    progress_q, progressVars, events, responded, mergeLog, loaded,
                    runVars >>

\* a frame item: mint a uuid, insert the skeleton, yield the request
OutboundFrame ==
    /\ outbound = "polling"
    /\ outbound' = "idle"
    /\ media_q # << >>
    /\ Head(media_q).kind = "Frame"
    /\ frames' = Insert(frames, nextUuid, Skeleton(Head(media_q)))
    /\ reqLog' = Insert(reqLog, nextUuid, Head(media_q))
    /\ nextUuid' = nextUuid + 1
    /\ taken' = Append(taken, Head(media_q))
    /\ media_q' = Tail(media_q)
    /\ UNCHANGED << supVars, file_paths, dirExists, stagedFiles, stagerVars,
                    workerVars, export_q, exportVars, finalArtifact,
                    progress_q, progressVars, events, responded, mergeLog, loaded,
                    runVars >>

\* a per-file error item: its record goes straight to the exporter, and the
\* loop receives again
OutboundErrFile ==
    /\ outbound = "polling"
    /\ media_q # << >>
    /\ Head(media_q).kind = "ErrFile"
    /\ export_q' = Append(export_q, ErrRecord(Head(media_q)))
    /\ taken' = Append(taken, Head(media_q))
    /\ media_q' = Tail(media_q)
    /\ UNCHANGED << supVars, file_paths, dirExists, stagedFiles, stagerVars,
                    workerVars, outbound, frames, nextUuid, exportVars,
                    finalArtifact, progress_q, progressVars, events, reqLog,
                    responded, mergeLog, loaded, runVars >>

\* media_q_r.recv() fails (queue closed and drained): the stream ends and
\* drops whatever it captured
OutboundFinish ==
    /\ outbound = "polling"
    /\ media_q = << >>
    /\ MediaClosed
    /\ outbound' = "finished"
    /\ UNCHANGED << supVars, file_paths, dirExists, stagedFiles, stagerVars,
                    workerVars, media_q, frames, nextUuid, export_q, exportVars,
                    finalArtifact, progress_q, progressVars, events, histVars,
                    loaded, runVars >>

\* the call is over (rejected, ended, failed): the transport may drop the
\* request body it is not polling, and with it media_q_r and export_q_s_clone
DropOutbound ==
    /\ outbound = "idle"
    /\ term \in {"rejected", "end", "error"}
    /\ outbound' = "dropped"
    /\ media_q' = << >>
    /\ UNCHANGED << supVars, file_paths, dirExists, stagedFiles, stagerVars,
                    workerVars, frames, nextUuid, export_q, exportVars,
                    finalArtifact, progress_q, progressVars, events, histVars,
                    loaded, runVars >>

-----------------------------------------------------------------------------
(* The run *)

Supervisor ==
    \/ ProcessMediaIndex \/ Authenticate \/ CleanupAndCheck \/ IndexAndResume
    \/ SpawnWorkers \/ PollFinish \/ FinalExport \/ FinalCleanup
    \/ EmitTerminal \/ JoinProgress

Server == DetectAccepted \/ DetectRejected \/ InboundResponse
          \/ InboundEnd \/ InboundError

Exporter == ExportRecv \/ ExportClose

Stager == StagerCreateDir \/ IoCopy \/ IoSend

Producers == MediaWorkerStart \/ MediaWorkerSend \/ MediaWorkerFinish

Outbound == OutboundFrame \/ OutboundErrFile \/ OutboundFinish

Transport == TransportPoll \/ DropOutbound

Next ==
    \/ Supervisor \/ Server \/ Exporter \/ Stager \/ Producers \/ Outbound
    \/ Transport \/ ProgressRecv

Spec == Init /\ [][Next]_vars


-----------------------------------------------------------------------------
(* Derived views used by the properties *)

\* process() has returned
Returned == pc \in {"returned", "join", "pm_done"} /\ result # "none"

\* the records appended to the CheckpointBuffer by this run
NewData == SubSeq(export_data, Len(loaded) + 1, Len(export_data))

\* every record sent to the exporter so far, in the order of sending
Enqueued == NewData \o export_q

Count(seq, r) == Cardinality({i \in DOMAIN seq : seq[i] = r})

ErrItemsTaken == {i \in DOMAIN taken : taken[i].kind = "ErrFile"}

Successful(r) == IsSome(r.bboxes) /\ IsSome(r.label) /\ ~IsSome(r.error)
Failed(r) == ~IsSome(r.bboxes) /\ ~IsSome(r.label) /\ IsSome(r.error)

IsPrefix(s, t) == Len(s) <= Len(t) /\ SubSeq(t, 1, Len(s)) = s

-----------------------------------------------------------------------------
(* C1: once process() has returned, the scratch directory does not exist,
   whatever the interleaving of cleanup_buffer with the stager task. *)
C1_ScratchAbsentAfterReturn == Returned => ~dirExists

(* C2: correlation soundness: every record the inbound loop merged and
   forwarded carries the file, frame_index, total_frames and iframe of the
   request that carried the response's uuid, and every successful record
   sent to the exporter is such a merge. *)
C2_CorrelationSound ==
    /\ \A p \in mergeLog :
          /\ p[1] \in DOMAIN reqLog
          /\ p[2].file = reqLog[p[1]].file
          /\ p[2].frame_index = reqLog[p[1]].frame_index
          /\ p[2].total_frames = reqLog[p[1]].total_frames
          /\ p[2].iframe = reqLog[p[1]].iframe
    /\ \A i \in DOMAIN Enqueued :
          Successful(Enqueued[i]) => \E p \in mergeLog : p[2] = Enqueued[i]

\* a response was merged while an earlier request was still pending
C2_OutOfOrderMerge ==
    \E p \in mergeLog : \E u \in DOMAIN frames : u < p[1]

(* C3: every item taken from the encoded-frame queue is enqueued to the
   exporter exactly once: a per-file error's record when it is taken, a
   frame's record once its response has been received (and not before);
   nothing is enqueued twice and nothing else is enqueued, whatever the
   order of the responses and however often one is repeated. *)
C3_EnqueuedExactlyOnce ==
    /\ \A u \in DOMAIN reqLog :
          Count(Enqueued, MergeResponse(Skeleton(reqLog[u]))) =
             IF u \in responded THEN 1 ELSE 0
    /\ \A i \in ErrItemsTaken :
          Count(Enqueued, ErrRecord(taken[i])) = Count(taken, taken[i])
    /\ Len(Enqueued) =
          Cardinality(responded \cap DOMAIN reqLog) + Cardinality(ErrItemsTaken)

\* an error item and two frames were taken, one frame answered, one pending,
\* and a response with an unknown uuid was received
C3_MixedItemsTaken ==
    /\ ErrItemsTaken # {}
    /\ UnknownUuid \in responded
    /\ \E u \in DOMAIN reqLog : u \in responded
    /\ \E u \in DOMAIN reqLog : u \notin responded

(* C4: mutually exclusive outcome: every record sent to the exporter is
   either successful (bboxes and label set, error null) or failed (error
   set, bboxes and label null). *)
C4_ExclusiveOutcome ==
    \A i \in DOMAIN Enqueued :
       (Successful(Enqueued[i]) /\ ~Failed(Enqueued[i]))
       \/ (Failed(Enqueued[i]) /\ ~Successful(Enqueued[i]))

\* the exporter has been sent a successful and a failed record
C4_BothOutcomesSent ==
    /\ \E i \in DOMAIN Enqueued : Successful(Enqueued[i])
    /\ \E i \in DOMAIN Enqueued : Failed(Enqueued[i])

(* C5: the inbound stream ending or failing eventually leads to the final
   export and to process() returning (the supervisor does not poll the done
   flag forever). *)
C5_InboundEndDrains ==
    (term \in {"end", "error"}) ~> (Returned /\ IsSome(finalArtifact))

(* C6: when the server ends the stream with requests still pending, the
   final artifact is the resume-loaded records followed by exactly the
   merged records (one per answered request) and the per-file error records
   forwarded; a request still in the PendingMap contributes no record. *)
C6_ArtifactAtStreamEnd ==
    (IsSome(finalArtifact) /\ term = "end") =>
       LET art == finalArtifact[1]
           new == SubSeq(art, Len(loaded) + 1, Len(art))
       IN /\ IsPrefix(loaded, art)
          /\ Len(new) = Cardinality(responded \cap DOMAIN reqLog)
                        + Cardinality(ErrItemsTaken)
          /\ \A p \in mergeLog : Count(new, p[2]) = 1
          /\ \A i \in ErrItemsTaken : Count(new, ErrRecord(taken[i])) = 1
          /\ \A u \in DOMAIN frames :
                Count(new, MergeResponse(frames[u])) = 0
                /\ Count(new, frames[u]) = 0

\* the stream ended with a request pending, one merged and one error record
C6_EndedWithPending ==
    /\ IsSome(finalArtifact)
    /\ term = "end"
    /\ frames # << >>
    /\ mergeLog # {}
    /\ ErrItemsTaken # {}

(* C7: every RPC error after authentication (the detect call rejected, an
   error on the inbound stream) ends the run with a final export holding
   every record accumulated so far, written before process() returns. *)
C7_RpcErrorExports ==
    (Returned /\ term \in {"rejected", "error"}) =>
       /\ IsSome(finalArtifact)
       /\ finalArtifact[1] = loaded \o Enqueued

(* C9: on a resumed run the loaded records come first in the
   CheckpointBuffer, in checkpoint order, in every checkpoint written and in
   the final artifact, which is the loaded records followed by the new
   records of the files that are processed again. *)
C9_LoadedRecordsFirst ==
    /\ pc \in {"spawn", "detect"} /\ cfg.resume.kind = "ok" =>
          loaded = cfg.resume.frames
    /\ IsPrefix(loaded, export_data)
    /\ IsSome(checkpointFile) => IsPrefix(loaded, checkpointFile[1])
    /\ IsSome(finalArtifact) =>
          /\ finalArtifact[1] = loaded \o NewData
          /\ \A i \in DOMAIN NewData : NewData[i].file \in file_paths

\* the resumed run of scenario S4 finished: the old records, then the
\* clip's frames again, and no new record of the skipped image
C9_ResumedRunExported ==
    /\ IsSome(finalArtifact)
    /\ loaded = ResumeS4.frames
    /\ Len(finalArtifact[1]) = Len(loaded) + VideoFrames
    /\ file_paths = {"clip.mp4"}

-----------------------------------------------------------------------------
(* Fairness: the threads of the program run, the outbound stream among
   them once it is polled; the transport polls it while the call is open;
   the server owes nothing *)

Fairness ==
    /\ WF_vars(ProcessMediaIndex) /\ WF_vars(Authenticate)
    /\ WF_vars(CleanupAndCheck) /\ WF_vars(IndexAndResume)
    /\ WF_vars(SpawnWorkers) /\ WF_vars(PollFinish) /\ WF_vars(FinalExport)
    /\ WF_vars(FinalCleanup) /\ WF_vars(EmitTerminal) /\ WF_vars(JoinProgress)
    /\ WF_vars(ExportRecv) /\ WF_vars(ExportClose)
    /\ WF_vars(StagerCreateDir) /\ WF_vars(IoCopy) /\ WF_vars(IoSend)
    /\ WF_vars(MediaWorkerStart) /\ WF_vars(MediaWorkerSend)
    /\ WF_vars(MediaWorkerFinish) /\ WF_vars(ProgressRecv)
    /\ WF_vars(OutboundFrame) /\ WF_vars(OutboundErrFile)
    /\ WF_vars(OutboundFinish)
    /\ WF_vars(term = "none" /\ TransportPoll)

FairSpec == Spec /\ Fairness


-----------------------------------------------------------------------------
(* resume_from_checkpoint on drawn inputs: any checkpoint of up to
   MaxCkptLen records, any indexed set *)

BoundedSeq(S, n) == UNION {[1..k -> S] : k \in 0..n}

\* the records a checkpoint file can hold
CkptRecords ==
    { OkRecord("a.jpg", 0, 1), FailRecord("a.jpg"),
      OkRecord("clip.mp4", 0, VideoFrames), OkRecord("clip.mp4", 1, VideoFrames),
      OkRecord("clip.mp4", 0, 1), FailRecord("clip.mp4") }

ResumeInputs ==
    {NoResume, BadResume}
    \cup {[kind |-> "ok", frames |-> frs] : frs \in BoundedSeq(CkptRecords, MaxCkptLen)}

InitResume ==
    /\ cfg \in {[BaseConfig EXCEPT !.resume = r] : r \in ResumeInputs}
    /\ pc = "index"
    /\ folder \in SUBSET Files
    /\ checkpointFile = None
    /\ runNo = 1
    /\ Idle

NextResume == IndexAndResume

ResumeSpec == InitResume /\ [][NextResume]_vars

\* resume_from_checkpoint has returned Ok
Resumed == pc = "spawn" /\ cfg.resume.kind = "ok"

(* C8 as claimed: a path is removed from the indexed set exactly when, over
   the whole checkpoint, its record count equals the total_frames recorded
   for it. *)
C8_RemovedIffEqual ==
    Resumed =>
       \A f \in folder :
          f \notin file_paths <=>
             /\ SeenCount(cfg.resume.frames, f) > 0
             /\ SeenCount(cfg.resume.frames, f) = ExpectedTotal(cfg.resume.frames, f)

(* C8 as amended: a path is removed exactly when its record count reaches
   the total_frames of its first record, which is at least 1 (so also when
   the checkpoint holds more records than that); a path with fewer records
   stays, and so does a path that is not in the checkpoint. *)
C8_RemovedIffReached ==
    Resumed =>
       /\ file_paths \subseteq folder
       /\ \A f \in folder :
             f \notin file_paths <=>
                /\ SeenCount(cfg.resume.frames, f) > 0
                /\ ExpectedTotal(cfg.resume.frames, f) >= 1
                /\ SeenCount(cfg.resume.frames, f) >=
                      ExpectedTotal(cfg.resume.frames, f)

\* a path with more records than its total_frames was removed, another with
\* fewer was kept
C8_OvercompleteRemoved ==
    /\ Resumed
    /\ \E f \in folder \ file_paths :
          SeenCount(cfg.resume.frames, f) > ExpectedTotal(cfg.resume.frames, f)
    /\ \E f \in file_paths :
          /\ SeenCount(cfg.resume.frames, f) > 0
          /\ SeenCount(cfg.resume.frames, f) < ExpectedTotal(cfg.resume.frames, f)

-----------------------------------------------------------------------------
(* Chains of runs: a run is killed at any point and started again with the
   latest checkpoint as its resume_path *)

Range(seq) == {seq[i] : i \in DOMAIN seq}

\* the records a complete run sends to the exporter for the files it
\* processes (every file decodes, every request is answered)
RunRecords ==
    UNION {{MergeResponse(Skeleton(item)) :
               item \in Range(MediaItems(f, "ok", cfg))} : f \in file_paths}

InitChain ==
    /\ cfg \in {[BaseConfig EXCEPT !.check_point = c] : c \in {1, 2}}
    /\ pc = "index"
    /\ folder = Files
    /\ checkpointFile = None
    /\ runNo = 1
    /\ Idle

\* lines 163-177 and 272-295: the next merged record, of any pending frame,
\* reaches the exporter
ChainExport ==
    /\ pc = "spawn"
    /\ \E r \in RunRecords \ Range(NewData) : ExportWorkerRecv(r)
    /\ UNCHANGED << supVars, file_paths, dirExists, stagedFiles, stagerVars,
                    workerVars, media_q, outbound, frames, nextUuid, export_q,
                    finish, finalArtifact, progress_q, progressVars, events,
                    histVars, loaded, runVars >>

\* lines 296-307: every request is answered, the stream ends, final export
ChainComplete ==
    /\ pc = "spawn"
    /\ RunRecords \subseteq Range(NewData)
    /\ finalArtifact' = Some(export_data)
    /\ pc' = "pm_done"
    /\ result' = "ok"
    /\ UNCHANGED << term, file_paths, dirExists, stagedFiles, stagerVars,
                    workerVars, media_q, outbound, frames, nextUuid, export_q,
                    exportVars, progress_q, progressVars, events, histVars, loaded,
                    runVars >>

\* the run is killed and its memory is lost; the next run is started with
\* the latest checkpoint file as its resume_path
ChainInterrupt ==
    /\ pc = "spawn"
    /\ runNo < MaxRuns
    /\ runNo' = runNo + 1
    /\ cfg' = [cfg EXCEPT !.resume =
                  IF IsSome(checkpointFile)
                  THEN [kind |-> "ok", frames |-> checkpointFile[1]]
                  ELSE NoResume]
    /\ pc' = "index"
    /\ file_paths' = {}
    /\ export_data' = << >>
    /\ checkpoint_counter' = 0
    /\ loaded' = << >>
    /\ UNCHANGED << term, result, dirExists, stagedFiles, stagerVars,
                    workerVars, media_q, outbound, frames, nextUuid, export_q,
                    finish, finalArtifact, progress_q, progressVars, events,
                    histVars, folder, checkpointFile >>

NextChain == IndexAndResume \/ ChainExport \/ ChainComplete \/ ChainInterrupt

ChainSpec == InitChain /\ [][NextChain]_vars

(* C10: at-least-once resumption: whenever a chain of interrupted runs,
   each resumed from the latest checkpoint, runs to completion, the final
   artifact holds, for every frame an uninterrupted run exports, at least
   one record with that file and frame_index. *)
C10_AtLeastOnce ==
    IsSome(finalArtifact) =>
       \A f \in folder :
          \A item \in Range(MediaItems(f, "ok", cfg)) :
             \E i \in DOMAIN finalArtifact[1] :
                /\ finalArtifact[1][i].file = f
                /\ finalArtifact[1][i].frame_index = item.frame_index

-----------------------------------------------------------------------------
(* The progress channel and the progress thread on folders of up to
   MaxFiles files: each file a producer finishes pushes one increment *)

InitProgress ==
    /\ cfg = BaseConfig
    /\ pc = "inbound"
    /\ folder \in {1..n : n \in 1..MaxFiles}
    /\ checkpointFile = None
    /\ runNo = 1
    /\ Idle

\* media_worker, line 91, for a file not finished yet: send(1) into the
\* bounded(5) channel, blocking while it is full
ProgressPush ==
    /\ progress_q + progress < TotalFiles
    /\ progress_q < ProgressCap
    /\ progress_q' = progress_q + 1
    /\ UNCHANGED << supVars, file_paths, dirExists, stagedFiles, stagerVars,
                    workerVars, media_q, outbound, frames, nextUuid, export_q,
                    exportVars, finalArtifact, progressVars, events, histVars,
                    loaded, runVars >>

NextProgress == ProgressPush \/ ProgressRecv

ProgressSpec == InitProgress /\ [][NextProgress]_vars

(* C19: every detect-progress value lies in [0, 100], and the number of
   increments the progress thread consumed never exceeds total_files. *)
C19_ProgressBounded ==
    /\ 0 <= percent
    /\ percent <= 100 * F32One
    /\ progress <= TotalFiles

-----------------------------------------------------------------------------
(* Properties of the producers, the stager and the progress accounting *)

\* the run drained completely: the outbound stream consumed every item,
\* every request was answered and every record reached the buffer
Drained == outbound = "finished" /\ frames = << >> /\ export_q = << >>

\* the successful records this run appended for a file
FileRecords(f) ==
    {i \in DOMAIN NewData : NewData[i].file = f /\ Successful(NewData[i])}

(* C11: in a run that drained completely, for every file that produced
   frames the records exported for it in the run have pairwise distinct
   frame_index values, and their number is the total_frames each carries. *)
C11_DistinctFrameIndex ==
    Drained =>
       \A f \in file_paths :
          /\ \A i, j \in FileRecords(f) :
                i # j => NewData[i].frame_index # NewData[j].frame_index
          /\ \A i \in FileRecords(f) :
                NewData[i].total_frames = Cardinality(FileRecords(f))

\* a drained run with the image's record and several records of the clip
C11_DrainedWithClip ==
    /\ Drained
    /\ Cardinality(FileRecords("a.jpg")) = 1
    /\ Cardinality(FileRecords("clip.mp4")) >= 2

(* C12: the CheckpointBuffer is append-only during a run (every step leaves
   the old buffer as a prefix of the new one), and the latest checkpoint
   written to disk is a prefix of the buffer in memory. *)
C12_AppendOnlyPrefix ==
    [][ /\ IsPrefix(export_data, export_data')
        /\ IsSome(checkpointFile') =>
              IsPrefix(checkpointFile'[1], export_data') ]_vars

\* a checkpoint is on disk and the buffer has grown past it
C12_BufferPastCheckpoint ==
    /\ IsSome(checkpointFile)
    /\ Len(checkpointFile[1]) > 0
    /\ Len(export_data) > Len(checkpointFile[1])

\* the items a file's producer put into the encoded-frame queue, as long as
\* the queue was not dropped with items in it
Emitted == taken \o media_q
FrameItems(f) ==
    {i \in DOMAIN Emitted : Emitted[i].file = f /\ Emitted[i].kind = "Frame"}
ErrItems(f) ==
    {i \in DOMAIN Emitted : Emitted[i].file = f /\ Emitted[i].kind = "ErrFile"}

(* C13: producer post-condition: for every file whose media_worker call is
   over, the producer has emitted either at least one frame item and no
   error item, or exactly one per-file error item and no frame; never
   nothing.  (Stated while the receiver of the queue lives or has read it
   to its end, so that every emitted item is still on record.) *)
C13_ProducerPostCondition ==
    outbound \in {"idle", "polling", "finished"} =>
       \A f \in file_paths :
          worker[f] \in {"done", "panicked"} =>
             \/ FrameItems(f) # {} /\ ErrItems(f) = {}
             \/ FrameItems(f) = {} /\ Cardinality(ErrItems(f)) = 1

\* nothing of the pipeline was started and nothing was written
NothingStarted ==
    /\ ~Spawned
    /\ stager = "none"
    /\ \A f \in Files : worker[f] = "idle"
    /\ reqLog = << >>
    /\ export_q = << >>
    /\ export_data = << >>
    /\ ~IsSome(checkpointFile)
    /\ ~IsSome(finalArtifact)

(* C14: when the auth call fails, the run emits detect-error and never
   detect-complete, starts no exporter, stager or producer, sends no detect
   request and writes no record, checkpoint or artifact. *)
C14_AuthFailureClean ==
    term = "auth" =>
       /\ NothingStarted
       /\ result = "err"
       /\ \A i \in DOMAIN events : events[i] # "detect-complete"
       /\ pc \in {"join", "pm_done"} => events = << "detect-error" >>

\* the run with the rejected token is over
C14_AuthFailedRunOver == term = "auth" /\ pc = "pm_done"

(* C15: with check_point = 0 the run exits without processing: no file is
   indexed for processing, no checkpoint is loaded, nothing is started,
   sent or written, and the run ends without an error (detect-complete). *)
C15_ZeroIntervalExits ==
    term = "config" =>
       /\ NothingStarted
       /\ file_paths = {}
       /\ loaded = << >>
       /\ result = "ok"
       /\ \A i \in DOMAIN events : events[i] # "detect-error"
       /\ pc \in {"join", "pm_done"} => events = << "detect-complete" >>

\* the run with check_point = 0 and a resume checkpoint is over
C15_ZeroIntervalRunOver ==
    /\ term = "config"
    /\ pc = "pm_done"
    /\ cfg.resume.kind = "ok"

(* C16: the stager is enabled if and only if the configuration provides a
   scratch directory and a positive buffer_size; in every other
   configuration no file is copied into the scratch directory. *)
C16_StagerEnabledIff ==
    Spawned =>
       /\ stager # "none" <=> (IsSome(cfg.buffer_path) /\ cfg.buffer_size > 0)
       /\ ~(IsSome(cfg.buffer_path) /\ cfg.buffer_size > 0) => stagedFiles = {}

\* the producer tasks that are processing a file, and those that took a file
\* and have not deleted its staged copy (processing it, or stopped by a panic)
Processing == {f \in Files : worker[f] = "emit"}
Holding == {f \in Files : worker[f] \in {"emit", "panicked"}}

(* C17 as claimed: the number of staged copies in the scratch directory is
   at most buffer_size plus the number of producer tasks processing a
   staged file. *)
C17_StagedAtMostCapacity ==
    Staged => Cardinality(stagedFiles) <= cfg.buffer_size + Cardinality(Processing)

(* C17 as amended: every staged copy is in the io queue, or is the one copy
   the io thread made and has not handed over yet, or belongs to a producer
   task that took it and has not deleted it; so the number of staged copies
   is at most buffer_size + 1 plus the number of those tasks. *)
C17_StagedBound ==
    /\ Len(io_q) <= cfg.buffer_size
    /\ Cardinality(io_held) <= 1
    /\ stagedFiles \subseteq (Range(io_q) \cup io_held \cup Holding)
    /\ Cardinality(stagedFiles) <= cfg.buffer_size + 1 + Cardinality(Holding)

\* the queue is full, the io thread holds one more copy, no producer has
\* taken a file
C17_OneCopyBeyondQueue ==
    /\ Staged
    /\ cfg.buffer_size >= 1
    /\ Len(io_q) = cfg.buffer_size
    /\ Holding = {}
    /\ Cardinality(stagedFiles) = cfg.buffer_size + 1

\* the increments pushed to the progress channel so far
Pushed == progress_q + progress

\* the files whose media_worker call ran to its end
Finished == {f \in Files : worker[f] = "done"}

(* C18 as claimed: one increment is pushed for every frame item and for
   every per-file error item emitted into the encoded-frame queue (so once
   every producer is through, there are as many increments as items). *)
C18_IncrementPerEmission ==
    outbound \in {"idle", "polling", "finished"} =>
       /\ Pushed <= Len(Emitted)
       /\ (\A f \in file_paths : worker[f] = "done") => Pushed = Len(Emitted)

(* C18 as amended: one increment is pushed per file, when its media_worker
   call ends, whatever the number of items the file gave (a video of K
   frames pushes one increment, a failed file one); a call that ends in a
   panic pushes none. *)
C18_IncrementPerFile == Pushed = Cardinality(Finished)

\* the clip gave several frame items and is the only finished file
C18_ClipCountedOnce ==
    /\ outbound \in {"idle", "polling", "finished"}
    /\ Finished = {"clip.mp4"}
    /\ Cardinality(FrameItems("clip.mp4")) >= 2
    /\ Pushed = 1

\* the files a producer task took
Handed == {f \in file_paths : worker[f] # "idle"}

(* C20: when process_media has returned from a run that drained completely
   and in which no producer task panicked, every file handed to the
   producers has pushed exactly one increment, no increment is left in (or
   lost from) the progress channel, and there was exactly one
   detect-progress event per pushed increment. *)
C20_ProgressAccounting ==
    (/\ pc = "pm_done"
     /\ Spawned
     /\ Drained
     /\ \A f \in Files : worker[f] # "panicked")
    => /\ Finished = Handed
       /\ Pushed = Cardinality(Handed)
       /\ progress_q = 0
       /\ progress = Cardinality(Handed)

\* process_media returned from a drained run that handed both files over
C20_DrainedAllCounted ==
    /\ pc = "pm_done"
    /\ Drained
    /\ Handed = Files
    /\ Finished = Files
    /\ Cardinality(FrameItems("clip.mp4")) >= 2
    /\ progress = 2

-----------------------------------------------------------------------------
(* Properties of the drain, the PendingMap and the events *)

\* the run left the inbound loop by its Ok(None) or its Err arm
DrainPath == term \in {"end", "error"}

\* the done flag is set only once export_worker has returned: the response
\* channel is closed (no sender is left) and drained
DoneAfterWorkerReturned ==
    finish => /\ export_q = << >>
              /\ ~SupervisorHoldsSender
              /\ ~OutboundHoldsSender

\* the final export is invoked only with the done flag set, and it writes
\* the buffer as the exporter left it
ExportAfterDone ==
    /\ DrainPath /\ pc \in {"export", "cleanup2"} => finish
    /\ DrainPath /\ IsSome(finalArtifact) =>
          finish /\ finalArtifact[1] = export_data

\* the supervisor's cleanup_buffer comes after the final export
CleanupAfterExport ==
    /\ DrainPath /\ pc = "cleanup2" => IsSome(finalArtifact)
    /\ DrainPath /\ Returned => IsSome(finalArtifact)

(* C21: drain ordering on the inbound-end and inbound-error paths: the
   supervisor invokes the final export only after the exporter's done flag
   is set, the flag is set only after export_worker has returned (response
   channel closed and drained), and the scratch directory is released only
   after the final export has returned. *)
C21_DrainOrdering ==
    /\ [](DoneAfterWorkerReturned /\ ExportAfterDone /\ CleanupAfterExport)
    /\ [][DrainPath /\ dirExists /\ ~dirExists' => IsSome(finalArtifact)]_vars

\* a staged run whose stream failed has returned: the directory the stager
\* had made is gone and the artifact holds the records of the buffer
C21_DrainedAndReleased ==
    /\ term = "error"
    /\ Returned
    /\ stager = "done"
    /\ ~dirExists
    /\ finish
    /\ IsSome(finalArtifact)
    /\ Len(finalArtifact[1]) >= 2

\* the frame items the outbound stream took: one request was yielded for each
FramesTaken == {i \in DOMAIN taken : taken[i].kind = "Frame"}

\* the uuids whose response was merged and forwarded
Merged == {p[1] : p \in mergeLog}

(* C22: PendingMap accounting: every request yielded has its own fresh uuid
   and had its entry inserted (a response to it never misses an entry that
   was not merged before); at every moment the keys of the PendingMap are
   the uuids of the issued requests whose response has not been merged, each
   with the skeleton of its frame, and the size of the map is the number of
   requests issued minus the number of responses merged. *)
C22_PendingMapAccounting ==
    /\ Cardinality(DOMAIN reqLog) = Cardinality(FramesTaken)
    /\ Merged \subseteq DOMAIN reqLog
    /\ Cardinality(mergeLog) = Cardinality(Merged)
    /\ DOMAIN frames = DOMAIN reqLog \ Merged
    /\ \A u \in DOMAIN frames : frames[u] = Skeleton(reqLog[u])
    /\ Cardinality(DOMAIN frames) =
          Cardinality(FramesTaken) - Cardinality(mergeLog)
    /\ responded \cap DOMAIN reqLog = Merged

\* three requests were issued: one is pending, two were merged, one of them
\* answered out of order
C22_PendingAndMerged ==
    /\ Cardinality(FramesTaken) = 3
    /\ Cardinality(DOMAIN frames) = 1
    /\ Cardinality(mergeLog) = 2
    /\ \E u \in DOMAIN frames : \E v \in Merged : u < v

\* the uuids a response can carry that are not in the PendingMap: those of
\* merged responses, and the unknown one
Unmatched == (DOMAIN reqLog \cup {UnknownUuid}) \ DOMAIN frames

\* what a discarded response must leave alone
discardFrame == << frames, export_q, export_data, checkpoint_counter,
                   checkpointFile, mergeLog, pc, term >>

(* C23: a response whose uuid is not in the PendingMap (a repetition of a
   merged response, or an unknown id) is taken and discarded with no effect:
   no record is sent to the exporter, the PendingMap and the
   CheckpointBuffer stay as they are, and the inbound loop goes on. *)
C23_UnmatchedDiscarded ==
    pc = "inbound" =>
       \A u \in Unmatched :
          /\ ENABLED InboundResponseFor(u)
          /\ ~ ENABLED (InboundResponseFor(u) /\ discardFrame' # discardFrame)

\* the loop has taken a response with the unknown id and goes on, with one
\* response merged (which the server can repeat) and one request pending
C23_UnknownTakenLoopGoesOn ==
    /\ pc = "inbound"
    /\ UnknownUuid \in responded
    /\ Merged # {}
    /\ frames # << >>
    /\ export_q # << >>

-----------------------------------------------------------------------------
(* The end of media_worker (media.rs lines 87-92) and
   remove_file_with_retries (lines 95-121), one step per call of
   fs::remove_file and of thread::sleep, with deletions that can fail: both
   files have been handed to the producers and their items sent *)

StagedConfig == [BaseConfig EXCEPT !.buffer_path = Some("buffer")]

InitRemove ==
    /\ cfg \in {BaseConfig, StagedConfig}
    /\ pc = "inbound"
    /\ term = "none"
    /\ result = "none"
    /\ folder = Files
    /\ file_paths = Files
    /\ dirExists = Staged
    /\ stagedFiles = IF Staged THEN Files ELSE {}
    /\ stager = IF Staged THEN "done" ELSE "none"
    /\ io_todo = {}
    /\ io_held = {}
    /\ io_q = << >>
    /\ worker = [f \in Files |-> "emit"]
    /\ emitting = [f \in Files |-> << >>]
    /\ rm = [f \in Files |-> NotCalled]
    /\ media_q = MediaItems("a.jpg", "ok", cfg) \o MediaItems("clip.mp4", "ok", cfg)
    /\ outbound = "idle"
    /\ frames = << >>
    /\ nextUuid = 1
    /\ export_q = << >>
    /\ export_data = << >>
    /\ checkpoint_counter = 0
    /\ checkpointFile = None
    /\ finish = FALSE
    /\ finalArtifact = None
    /\ progress_q = 0
    /\ progress = 0
    /\ percent = 0
    /\ events = << >>
    /\ reqLog = << >>
    /\ responded = {}
    /\ mergeLog = {}
    /\ taken = << >>
    /\ loaded = << >>
    /\ runNo = 1

\* what the end of media_worker leaves alone
removeFrame ==
    << supVars, file_paths, dirExists, stagerVars, emitting, media_q, outbound,
       frames, nextUuid, export_q, exportVars, finalArtifact, progressVars,
       events, histVars, loaded, runVars >>

\* media_worker, lines 87-88: the call, made when tmp_path differs from
\* file_path (the file is a staged copy)
MediaWorkerRemove ==
    /\ \E f \in Files :
          /\ worker[f] = "emit"
          /\ emitting[f] = << >>
          /\ rm[f].at = "none"
          /\ rm' = [rm EXCEPT ![f].at = IF Staged THEN "loop" ELSE "skipped"]
    /\ UNCHANGED << removeFrame, worker, stagedFiles, progress_q >>

\* faulty variant: the sleep also follows the last failed attempt
RemoveFileAttempt_SleepAfterLast ==
    /\ \E f \in Files :
          /\ rm[f].at = "loop"
          /\ rm[f].attempts < MaxRetries
          /\ \E ok \in BOOLEAN :
                IF ok
                THEN /\ stagedFiles' = stagedFiles \ {f}
                     /\ rm' = [rm EXCEPT ![f].tries = @ + 1,
                                         ![f].removed = TRUE,
                                         ![f].at = "returned"]
                ELSE /\ stagedFiles' = stagedFiles
                     /\ rm' = [rm EXCEPT ![f].tries = @ + 1,
                                         ![f].attempts = @ + 1,
                                         ![f].at = "sleep"]
    /\ UNCHANGED << removeFrame, worker, progress_q >>

\* remove_file_with_retries, lines 98-117: one pass of the while loop; a
\* success returns Ok, a failure counts and sleeps if an attempt is left
RemoveFileAttempt ==
    /\ \E f \in Files :
          /\ rm[f].at = "loop"
          /\ rm[f].attempts < MaxRetries
          /\ \E ok \in BOOLEAN :
                IF ok
                THEN /\ stagedFiles' = stagedFiles \ {f}
                     /\ rm' = [rm EXCEPT ![f].tries = @ + 1,
                                         ![f].removed = TRUE,
                                         ![f].at = "returned"]
                ELSE /\ stagedFiles' = stagedFiles
                     /\ rm' = [rm EXCEPT ![f].tries = @ + 1,
                                         ![f].attempts = @ + 1,
                                         ![f].at =
                                            IF rm[f].attempts + 1 < MaxRetries
                                            THEN "sleep" ELSE "loop"]
    /\ UNCHANGED << removeFrame, worker, progress_q >>

\* line 114: thread::sleep(delay), then the next pass
RemoveFileSleep ==
    /\ \E f \in Files :
          /\ rm[f].at = "sleep"
          /\ rm' = [rm EXCEPT ![f].sleeps = @ + 1, ![f].at = "loop"]
    /\ UNCHANGED << removeFrame, worker, stagedFiles, progress_q >>

\* lines 98 and 120: the loop ends with the attempts used up, Ok(()) is
\* returned
RemoveFileGiveUp ==
    /\ \E f \in Files :
          /\ rm[f].at = "loop"
          /\ ~ (rm[f].attempts < MaxRetries)
          /\ rm' = [rm EXCEPT ![f].at = "returned"]
    /\ UNCHANGED << removeFrame, worker, stagedFiles, progress_q >>

\* lines 89-91: expect on the Ok result, then progress_sender.send(1)
MediaWorkerProgress ==
    /\ \E f \in Files :
          /\ worker[f] = "emit"
          /\ rm[f].at \in {"returned", "skipped"}
          /\ progress_q < ProgressCap
          /\ progress_q' = progress_q + 1
          /\ worker' = [worker EXCEPT ![f] = "done"]
    /\ UNCHANGED << removeFrame, rm, stagedFiles >>

NextRemove ==
    \/ MediaWorkerRemove \/ RemoveFileAttempt \/ RemoveFileSleep
    \/ RemoveFileGiveUp \/ MediaWorkerProgress

RemoveSpec == InitRemove /\ [][NextRemove]_vars

Min(a, b) == IF a <= b THEN a ELSE b

(* C24: staged-file deletion: remove_file_with_retries calls fs::remove_file
   at most three times and stops at the first success; it sleeps only
   between a failed attempt and the next one (never after the last); it
   returns success also when all three attempts failed, and the producer
   then pushes the file's progress increment; when working_path equals
   source_path (no staging) no deletion is attempted. *)
C24_BoundedRetries ==
    /\ \A f \in Files :
          LET r == rm[f]
          IN /\ r.tries <= MaxRetries
             /\ r.tries = r.attempts + (IF r.removed THEN 1 ELSE 0)
             /\ r.removed => r.at = "returned"
             /\ r.removed <=> (Staged /\ f \notin stagedFiles)
             /\ r.at = "sleep" =>
                   r.attempts < MaxRetries /\ r.sleeps = r.attempts - 1
             /\ r.at \in {"loop", "returned"} =>
                   r.sleeps = Min(r.attempts, MaxRetries - 1)
             /\ r.at = "returned" /\ ~ r.removed => r.attempts = MaxRetries
             /\ ~ Staged => r.tries = 0 /\ r.at \in {"none", "skipped"}
             /\ worker[f] # "panicked"
             /\ worker[f] = "done" => r.at \in {"returned", "skipped"}
    /\ Pushed = Cardinality(Finished)
    /\ (\E f \in Files : worker[f] = "emit" /\ rm[f].at = "returned")
          => ENABLED MediaWorkerProgress

\* one staged copy could not be deleted in three attempts and its file is
\* counted all the same; the other was deleted at the second attempt
C24_GaveUpAndCounted ==
    /\ worker["clip.mp4"] = "done"
    /\ "clip.mp4" \in stagedFiles
    /\ rm["clip.mp4"].tries = MaxRetries
    /\ rm["clip.mp4"].sleeps = MaxRetries - 1
    /\ rm["a.jpg"].removed
    /\ rm["a.jpg"].tries = 2
    /\ rm["a.jpg"].sleeps = 1
    /\ Pushed = 2

-----------------------------------------------------------------------------
(* Properties of resumed runs *)

\* the frame indices the checkpoint a run loaded holds for a file
CoveredIndices(f) ==
    {loaded[i].frame_index : i \in {j \in DOMAIN loaded : loaded[j].file = f}}

\* the frame indices an uninterrupted run exports for a file
SampledIndices(f) ==
    {item.frame_index : item \in Range(MediaItems(f, "ok", cfg))}

(* C25: across any chain of interrupted and resumed runs, a file is skipped
   on resume only if the checkpoint holds at least one record for each of
   the file's sampled frame indices: records accumulated from several
   partial runs never make an incompletely covered file count as
   complete. *)
C25_SkippedOnlyIfCovered ==
    pc \in {"spawn", "pm_done"} =>
       \A f \in folder \ file_paths : SampledIndices(f) \subseteq CoveredIndices(f)

\* the first record a checkpoint holds for a file
FirstRecord(frs, f) ==
    frs[CHOOSE i \in DOMAIN frs : /\ frs[i].file = f
                                  /\ \A j \in 1..(i - 1) : frs[j].file # f]

\* the files whose first record in the checkpoint is a per-file error record
FailedFirst(frs) ==
    {f \in Files : /\ SeenCount(frs, f) > 0
                   /\ FirstRecord(frs, f) = FailRecord(f)}

(* C26: a file whose first record in the checkpoint is a per-file error
   record (total_frames = 0, frame_index = 0) is never removed from the
   indexed set by resume_from_checkpoint, however many further records for
   it the checkpoint holds: it is processed again on every resume. *)
C26_FailedFileKept ==
    /\ \A f \in Files : FailRecord(f).total_frames = 0
                        /\ FailRecord(f).frame_index = 0
    /\ Resumed =>
          \A f \in folder \cap FailedFirst(cfg.resume.frames) : f \in file_paths

\* a file was kept whose error record is followed by records of a later,
\* successful processing
C26_KeptDespiteLaterRecords ==
    /\ Resumed
    /\ \E f \in folder \cap FailedFirst(cfg.resume.frames) :
          /\ f \in file_paths
          /\ SeenCount(cfg.resume.frames, f) = MaxCkptLen
          /\ \E i \in DOMAIN cfg.resume.frames :
                /\ cfg.resume.frames[i].file = f
                /\ Successful(cfg.resume.frames[i])

-----------------------------------------------------------------------------
(* Properties of the events and of termination *)

\* the terminal event of the run (detect-complete or detect-error) is out
TerminalEmitted == events # << >>

(* C27: event ordering in process_media: once the terminal event of a run
   (detect-complete or detect-error) has been emitted, no further
   detect-progress event is emitted for that run. *)
C27_NoProgressAfterTerminal ==
    [][TerminalEmitted => progress' = progress]_vars

\* a server that answers every request and then ends the stream: it sends
\* the response of a request it received, and ends its stream once the
\* request stream has ended and every request is answered.  The runs: both
\* capacities of the staging queue from the start of process_media, and a
\* run without staging on a clip that fills the encoded-frame queue
CoopConfigs ==
    { [StagedConfig EXCEPT !.max_frames = Some(2)],
      [BaseConfig EXCEPT !.buffer_path = Some("buffer"), !.buffer_size = 0,
                         !.max_frames = Some(1)] }

\* a clip long enough to fill the encoded-frame queue
LongClipFrames == MediaQueueCap + 2

\* up to this many requests the server answers in any order, beyond that in
\* the order of the requests
AnyOrderMax == VideoFrames + 1

\* a run without staging on a folder that holds one clip of LongClipFrames
\* frames, after the detect call was accepted and the clip was decoded
InitLong ==
    /\ cfg = BaseConfig
    /\ pc = "inbound"
    /\ term = "none"
    /\ result = "none"
    /\ folder = {"clip.mp4"}
    /\ file_paths = {"clip.mp4"}
    /\ dirExists = FALSE
    /\ stagedFiles = {}
    /\ stager = "none"
    /\ io_todo = {}
    /\ io_held = {}
    /\ io_q = << >>
    /\ worker = [f \in Files |-> IF f = "clip.mp4" THEN "emit" ELSE "idle"]
    /\ emitting = [f \in Files |->
                      IF f = "clip.mp4"
                      THEN HandleFfmpegOutput(f, LongClipFrames, None, FALSE)
                      ELSE << >>]
    /\ rm = [f \in Files |-> NotCalled]
    /\ media_q = << >>
    /\ outbound = "idle"
    /\ frames = << >>
    /\ nextUuid = 1
    /\ export_q = << >>
    /\ export_data = << >>
    /\ checkpoint_counter = 0
    /\ checkpointFile = None
    /\ finish = FALSE
    /\ finalArtifact = None
    /\ progress_q = 0
    /\ progress = 0
    /\ percent = 0
    /\ events = << >>
    /\ reqLog = << >>
    /\ responded = {}
    /\ mergeLog = {}
    /\ taken = << >>
    /\ loaded = << >>
    /\ runNo = 1

InitCoop ==
    \/ /\ cfg \in CoopConfigs
       /\ pc = "pm_index"
       /\ folder = Files
       /\ checkpointFile = None
       /\ runNo = 1
       /\ Idle
    \/ InitLong

CoopRespond ==
    \E u \in DOMAIN frames :
       /\ \/ Cardinality(DOMAIN reqLog) <= AnyOrderMax
          \/ \A v \in DOMAIN frames : u <= v
       /\ InboundResponseFor(u)

CoopEnd ==
    /\ outbound = "finished"
    /\ frames = << >>
    /\ InboundEnd

NextCoop ==
    \/ Supervisor \/ DetectAccepted \/ CoopRespond \/ CoopEnd \/ Exporter
    \/ Stager \/ Producers \/ Outbound \/ TransportPoll \/ ProgressRecv

\* the threads of the program, the transport and this server together do
\* not stop while one of them can take a step
CoopFairness == WF_vars(NextCoop)

CoopSpec == InitCoop /\ [][NextCoop]_vars /\ CoopFairness

\* process_media has returned after the final export
RunOver == pc = "pm_done" /\ IsSome(finalArtifact) /\ result = "ok"

\* a producer task or the io thread panicked (the run is then beyond the
\* claim: nothing handles the panic of a task given to rayon::spawn)
ProducerPanicked ==
    stager = "panicked" \/ \E f \in Files : worker[f] = "panicked"

(* C28: deadlock freedom: with a server that answers every request and then
   ends the stream, for every capacity of the staging queue (0 included),
   the run never reaches a state in which the stager, the producers, the
   outbound stream, the inbound loop, the exporter and the progress thread
   are all blocked before process_media has returned (a behaviour that
   stops there would never reach the end), and every run that started its
   workers and in which no producer panics reaches the final export and
   process_media returns. *)
C28_DeadlockFree == Spawned ~> (RunOver \/ ProducerPanicked)

\* the producer of the long clip is blocked on the full encoded-frame queue
\* while the transport is not polling the request stream
QueueFull ==
    /\ Len(media_q) = MediaQueueCap
    /\ emitting["clip.mp4"] # << >>
    /\ outbound = "idle"

\* the run on the long clip is over: every frame went through the queue of
\* capacity 8 and was answered, and the file is counted
C28_LongRunOver ==
    /\ RunOver
    /\ ~ ProducerPanicked
    /\ Drained
    /\ Cardinality(FrameItems("clip.mp4")) = LongClipFrames
    /\ Len(finalArtifact[1]) = LongClipFrames
    /\ progress = 1

====
